---- MODULE Spec2Model ----
(***************************************************************************)
(* Task execution engine of app/utils/task.py: TaskExecutor on top of the  *)
(* asyncio event loop.                                                     *)
(*                                                                         *)
(* The event loop is modelled explicitly: `ready` is the loop's FIFO queue *)
(* of runnable asyncio tasks, and one step of the model pops its head and  *)
(* runs that task up to its next await.  Two kinds of asyncio task exist:  *)
(*   - a call: the task of a caller that runs execute_task(task) or        *)
(*     stop_task(task_id) on the executor;                                 *)
(*   - an execution task: the asyncio.Task that execute_task creates for   *)
(*     _do_execute_task(task); it is named by the call that created it.    *)
(* A future that completes schedules its done-callbacks in the order in    *)
(* which they were registered; task.cancel() on a task that waits on a     *)
(* future cancels that future, otherwise it sets the task's _must_cancel   *)
(* flag; a cancelled task raises CancelledError, which is a BaseException  *)
(* and therefore passes through every `except Exception`.                  *)
(***************************************************************************)
EXTENDS Integers, Sequences, FiniteSets, TLC

\* ---------------------------------------------------------------- bounds
MaxCalls == 3      \* number of execute_task / stop_task calls in a behaviour
MaxLiveCalls == 2  \* the same, in the behaviours checked for liveness
MaxLoops == 2      \* number of recurrence loops created by schedule_task
MaxTime == 3       \* the clock runs from minute 0 to minute MaxTime
MaxRuns == 2       \* executions beside a scheduler: firings and other calls
MaxManual == 1     \* of these, the calls that are not firings
MaxIsoTime == 1    \* minutes of clock beside two scheduled ids
MaxNameLen == 2    \* length of the short task names tried
PortMargin == 1    \* ports tried below 1 and above 65535
MaxBase == 11      \* latest base time handed to get_next_run_time, in minutes
MaxDates == 8      \* dates in the executions_by_date handed to get_execution_trend
MaxBusyLoops == 1  \* loops created when other callers use the executors too
Calls == 1..MaxCalls

\* The task ids the callers use. Ids are dictionary keys, compared only for
\* equality: two of them give calls on the same id and calls on different ids.
TaskIds == {1, 2}

\* ------------------------------------------------------- task descriptors
Manual == "manual"          \* "手动触发"
Scheduled == "scheduled"    \* "定时触发"
Event == "event"            \* "事件触发"
Unknown == "unknown"        \* any other trigger_method string

TriggerMethods == {Manual, Scheduled, Event, Unknown}

\* cron_expression values: None/empty, whitespace only, every five minutes,
\* every minute, an expression croniter parses but for which it finds no next
\* date, and an unparseable one
CronExprs == {"", " ", "*/5 * * * *", "* * * * *", "0 0 31 2 *", "61 * * * *"}

\* The Task snapshots handed to execute_task, one per outcome of a body: a
\* body that succeeds, a scheduled body whose next run time is computable, a
\* scheduled body whose next run time is not, and no body at all.
TaskSnapshots ==
    { [trigger_method |-> Manual, cron_expression |-> ""],
      [trigger_method |-> Scheduled, cron_expression |-> "*/5 * * * *"],
      [trigger_method |-> Scheduled, cron_expression |-> "61 * * * *"],
      [trigger_method |-> Unknown, cron_expression |-> ""] }

\* ---------------------------------------------------------- CronValidator
\* str.strip() on the cron expressions above
strip(s) == IF s = " " THEN "" ELSE s

\* croniter(expr) accepts the five-field expression (no ValueError)
croniter(expr) == expr \in {"*/5 * * * *", "* * * * *", "0 0 31 2 *"}

validate_cron_expression(cron_expression) ==
    IF cron_expression = "" \/ strip(cron_expression) = ""
    THEN FALSE
    ELSE croniter(strip(cron_expression))

None == -1

\* the minutes between two matches of an accepted expression
every(expr) == IF expr = "*/5 * * * *" THEN 5 ELSE 1

\* croniter(expr, base).get_next(datetime): the first match strictly after
\* base, in minutes; an exception (None here) when no date is found
get_next(expr, base) ==
    IF expr = "0 0 31 2 *"
    THEN None
    ELSE every(expr) * ((base \div every(expr)) + 1)

\* Faulty variant of get_next_run_time: a base time that matches the
\* expression is returned itself.
get_next_run_time_Inclusive(cron_expression, base_time) ==
    IF ~validate_cron_expression(cron_expression)
    THEN None
    ELSE get_next(strip(cron_expression), base_time - 1)

\* the value is a datetime (a minute) or None
get_next_run_time(cron_expression, base_time) ==
    IF ~validate_cron_expression(cron_expression)
    THEN None
    ELSE get_next(strip(cron_expression), base_time)

\* ------------------------------------------------------- execution results
NoRet == [kind |-> "none", success |-> FALSE, error |-> ""]
Return(success, error) == [kind |-> "return", success |-> success, error |-> error]
Raise(exc) == [kind |-> "raise", success |-> FALSE, error |-> exc]

TaskAlreadyRunning == "TaskAlreadyRunning"    \* Exception("任务已在运行中")
CancelledError == "CancelledError"            \* asyncio.CancelledError

\* _do_execute_task: the trigger methods that have a body
HasBody(trigger_method) == trigger_method \in {Manual, Scheduled, Event}

\* _do_execute_task, else branch: raise Exception("不支持的触发方式"), caught
\* by the except clause of the same function
UnsupportedResult == Return(FALSE, "unsupported trigger method")

\* Faulty variant of BodyResult: the next run time is computed outside the try block,
\* so its failure leaves _do_execute_task as an exception.
BodyResult_Uncaught(trigger_method, cron_expression) ==
    IF trigger_method = Scheduled
         /\ cron_expression # ""
         /\ get_next_run_time(cron_expression, 0) = None
    THEN Raise("AttributeError")
    ELSE Return(TRUE, "")

\* _do_execute_task after the body's sleep has returned. Whether the next run
\* time is None does not depend on the base time, so the base is minute 0.
BodyResult(trigger_method, cron_expression) ==
    IF trigger_method = Scheduled
         /\ cron_expression # ""
         /\ get_next_run_time(cron_expression, 0) = None
    THEN Return(FALSE, "'NoneType' object has no attribute 'isoformat'")
    ELSE Return(TRUE, "")

\* ------------------------------------------------------------------ state
VARIABLES
    running_tasks,   \* TaskExecutor.running_tasks: task id -> execution task
    task,            \* the execution tasks (asyncio.Task), by creating call
    call,            \* the calls made on the executor
    ready,           \* the event loop's queue of runnable tasks
    nCalls           \* number of calls made so far

\* TaskScheduler (the module-level task_scheduler) and the clock
VARIABLES
    scheduled_tasks,         \* TaskScheduler.scheduled_tasks: task id -> loop
    executor_running_tasks,  \* TaskScheduler.executor.running_tasks
    loop,                    \* the _schedule_loop tasks (asyncio.Task)
    nLoops,                  \* number of loops created so far
    now,                     \* datetime.now(), in minutes
    fired,                   \* the calls of execute_task made by the loops
    last                     \* the last schedule_task/unschedule_task call
                             \* and what it returned

\* The pure functions of the module (CronValidator, TaskValidator,
\* TaskStatisticsCalculator): the arguments of a call and what it returned
VARIABLES
    arg,             \* the arguments handed to the function
    out              \* the function called and its return value

svars == <<scheduled_tasks, executor_running_tasks, loop, nLoops, now, fired,
           last>>

pvars == <<arg, out>>

vars == <<running_tasks, task, call, ready, nCalls, svars, pvars>>

NoTask == [state |-> "none", must_cancel |-> FALSE, result |-> NoRet,
           callbacks |-> <<>>]

NoCall == [op |-> "none", task_id |-> 0, trigger_method |-> "",
           cron_expression |-> "", pc |-> "none", ret |-> NoRet, handle |-> 0]

Loops == 1..MaxLoops

NoLoop == [state |-> "none", must_cancel |-> FALSE, task_id |-> 0,
           cron_expression |-> "", next_run |-> None, computed_at |-> 0,
           run |-> 0]

NoLast == [op |-> "none", task_id |-> 0, trigger_method |-> "",
           cron_expression |-> "", ret |-> FALSE]

\* what is remembered of a call of schedule_task or unschedule_task
Called(op, task_id, snap, ret) ==
    [op |-> op, task_id |-> task_id, trigger_method |-> snap.trigger_method,
     cron_expression |-> snap.cron_expression, ret |-> ret]

NoSnap == [trigger_method |-> "", cron_expression |-> ""]

SchedInit ==
    /\ scheduled_tasks = <<>>
    /\ executor_running_tasks = <<>>
    /\ loop = [l \in Loops |-> NoLoop]
    /\ nLoops = 0
    /\ now = 0
    /\ fired = {}
    /\ last = NoLast

\* no pure function has been called
NoArg == [given |-> FALSE]
NoOut == [fn |-> "none"]

\* the executors and the scheduler after construction
EngineInit ==
    /\ running_tasks = <<>>
    /\ task = [r \in Calls |-> NoTask]
    /\ call = [c \in Calls |-> NoCall]
    /\ ready = <<>>
    /\ nCalls = 0
    /\ SchedInit

Init ==
    /\ EngineInit
    /\ arg = NoArg
    /\ out = NoOut

\* ---------------------------------------------------------------- helpers
\* asyncio.Task.done()
done(r) == task[r].state \in {"finished", "cancelled"}

\* an execution body that has been created and has not exited
InFlight(r) == task[r].state \in {"pending", "sleeping", "woken"}

\* execute_task line 173: the running check
IsRunning(task_id) ==
    task_id \in DOMAIN running_tasks /\ ~done(running_tasks[task_id])

\* dict without the key (del d[k])
Del(d, k) == [t \in DOMAIN d \ {k} |-> d[t]]

\* dict with d[k] = v
Put(d, k, v) == [t \in DOMAIN d \cup {k} |-> IF t = k THEN v ELSE d[t]]

\* Faulty variant of Cleanup: the finally clause is missing.
Cleanup_Missing(d, task_id) == d

\* Faulty variant of Cleanup: the finally clause empties the whole map.
Cleanup_Clears(d, task_id) == [x \in {} |-> 0]

\* execute_task, finally clause
Cleanup(d, task_id) == IF task_id \in DOMAIN d THEN Del(d, task_id) ELSE d

\* asyncio.Task.cancel() on a task that is not done: a task suspended on its
\* sleep has the sleep's future cancelled, which makes it runnable; a task
\* that is already runnable only has _must_cancel set.
cancel(t) ==
    [t EXCEPT !.must_cancel = TRUE,
              !.state = IF t.state = "sleeping" THEN "woken" ELSE t.state]

\* Faulty variant of Wakeups: the done-callbacks are scheduled last
\* registered first.
Wakeups_Reversed(cbs) ==
    [i \in 1..Len(cbs) |-> <<"call", cbs[Len(cbs) + 1 - i]>>]

\* the done-callbacks of a completed future, scheduled in registration order
Wakeups(cbs) == [i \in 1..Len(cbs) |-> <<"call", cbs[i]>>]

Head1(kind, id) == ready # <<>> /\ Head(ready) = <<kind, id>>


\* --------------------------------------------------------------- callers
\* A caller's asyncio task is made runnable. When the event loop runs it, it
\* calls execute_task(task) or stop_task(task_id) on the executor. At most
\* `limit` calls are made.
ArriveUpTo(limit) ==
    /\ nCalls < limit
    /\ nCalls' = nCalls + 1
    /\ call' = [call EXCEPT ![nCalls + 1].pc = "start"]
    /\ ready' = Append(ready, <<"call", nCalls + 1>>)
    /\ UNCHANGED <<running_tasks, task>>
    /\ UNCHANGED svars
    /\ UNCHANGED pvars

Arrive == ArriveUpTo(MaxCalls)

LiveArrive == ArriveUpTo(MaxLiveCalls)

\* Task ids are only ever compared for equality, so the calls name them in
\* order of first use: a call uses an id already used or the next fresh one.
UsedIds == { call[c].task_id : c \in Calls } \ {0}
NextIds == { id \in TaskIds : id = 1 \/ id - 1 \in UsedIds }

\* ----------------------------------------------------------- execute_task
\* Faulty variant of ExecuteReject: the rejected call stops the run it found.
ExecuteReject_Cancels(c, task_id, snap) ==
    /\ Head1("call", c)
    /\ call[c].pc = "start"
    /\ IsRunning(task_id)
    /\ LET r == running_tasks[task_id]
       IN /\ task' = [task EXCEPT ![r] = cancel(task[r])]
          /\ ready' = IF task[r].state = "sleeping"
                      THEN Append(Tail(ready), <<"exec", r>>)
                      ELSE Tail(ready)
    /\ running_tasks' = Del(running_tasks, task_id)
    /\ call' = [call EXCEPT ![c] =
                 [op |-> "execute", task_id |-> task_id,
                  trigger_method |-> snap.trigger_method,
                  cron_expression |-> snap.cron_expression,
                  pc |-> "done", ret |-> Raise(TaskAlreadyRunning),
                  handle |-> running_tasks[task_id]]]
    /\ UNCHANGED nCalls
    /\ UNCHANGED svars
    /\ UNCHANGED pvars

\* execute_task finds the task id running: raise Exception("任务已在运行中"),
\* re-raised by the except clause, and the finally clause runs on the way out.
ExecuteReject(c, task_id, snap) ==
    /\ Head1("call", c)
    /\ call[c].pc = "start"
    /\ IsRunning(task_id)
    /\ running_tasks' = Cleanup(running_tasks, task_id)
    /\ call' = [call EXCEPT ![c] =
                 [op |-> "execute", task_id |-> task_id,
                  trigger_method |-> snap.trigger_method,
                  cron_expression |-> snap.cron_expression,
                  pc |-> "done", ret |-> Raise(TaskAlreadyRunning),
                  handle |-> running_tasks[task_id]]]
    /\ ready' = Tail(ready)
    /\ UNCHANGED <<task, nCalls>>
    /\ UNCHANGED svars
    /\ UNCHANGED pvars

\* execute_task creates the execution task, registers it and awaits it: the
\* new task is scheduled, and the caller becomes its first done-callback.
ExecuteAccept(c, task_id, snap) ==
    /\ Head1("call", c)
    /\ call[c].pc = "start"
    /\ ~IsRunning(task_id)
    /\ task' = [task EXCEPT ![c] = [state |-> "pending", must_cancel |-> FALSE,
                                    result |-> NoRet, callbacks |-> <<c>>]]
    /\ running_tasks' = Put(running_tasks, task_id, c)
    /\ call' = [call EXCEPT ![c] =
                 [op |-> "execute", task_id |-> task_id,
                  trigger_method |-> snap.trigger_method,
                  cron_expression |-> snap.cron_expression,
                  pc |-> "awaiting", ret |-> NoRet, handle |-> c]]
    /\ ready' = Append(Tail(ready), <<"exec", c>>)
    /\ UNCHANGED nCalls
    /\ UNCHANGED svars
    /\ UNCHANGED pvars

\* Faulty variant of ExecuteResume: the entry is deleted after the await instead of in
\* a finally clause, so only a normal return cleans up.
ExecuteResume_NoFinally(c) ==
    /\ Head1("call", c)
    /\ call[c].op = "execute" /\ call[c].pc = "awaiting"
    /\ done(c)
    /\ call' = [call EXCEPT ![c].pc = "done",
                            ![c].ret = IF task[c].state = "cancelled"
                                       THEN Raise(CancelledError)
                                       ELSE task[c].result]
    /\ running_tasks' = IF task[c].state = "cancelled"
                        THEN running_tasks
                        ELSE Cleanup(running_tasks, call[c].task_id)
    /\ ready' = Tail(ready)
    /\ UNCHANGED <<task, nCalls>>
    /\ UNCHANGED svars
    /\ UNCHANGED pvars

\* `await execution_task` returns or raises in the caller; the finally clause
\* runs on either path.
ExecuteResume(c) ==
    /\ Head1("call", c)
    /\ call[c].op = "execute" /\ call[c].pc = "awaiting"
    /\ done(c)
    /\ call' = [call EXCEPT ![c].pc = "done",
                            ![c].ret = IF task[c].state = "cancelled"
                                       THEN Raise(CancelledError)
                                       ELSE task[c].result]
    /\ running_tasks' = Cleanup(running_tasks, call[c].task_id)
    /\ ready' = Tail(ready)
    /\ UNCHANGED <<task, nCalls>>
    /\ UNCHANGED svars
    /\ UNCHANGED pvars

\* ------------------------------------------------------- _do_execute_task
\* The first step of an execution task with a body: it runs up to the
\* asyncio.sleep of its body and suspends on the timer.
BodyStart(r) ==
    /\ Head1("exec", r)
    /\ task[r].state = "pending" /\ ~task[r].must_cancel
    /\ HasBody(call[r].trigger_method)
    /\ task' = [task EXCEPT ![r].state = "sleeping"]
    /\ ready' = Tail(ready)
    /\ UNCHANGED <<running_tasks, call, nCalls>>
    /\ UNCHANGED svars
    /\ UNCHANGED pvars

\* The first step of an execution task without a body: the exception is
\* caught inside _do_execute_task and the task finishes with a failure result.
BodyUnsupported(r) ==
    /\ Head1("exec", r)
    /\ task[r].state = "pending" /\ ~task[r].must_cancel
    /\ ~HasBody(call[r].trigger_method)
    /\ task' = [task EXCEPT ![r].state = "finished",
                            ![r].result = UnsupportedResult,
                            ![r].callbacks = <<>>]
    /\ ready' = Tail(ready) \o Wakeups(task[r].callbacks)
    /\ UNCHANGED <<running_tasks, call, nCalls>>
    /\ UNCHANGED svars
    /\ UNCHANGED pvars

\* The timer of the body's asyncio.sleep expires: the task is runnable again.
TimerFire(r) ==
    /\ task[r].state = "sleeping"
    /\ task' = [task EXCEPT ![r].state = "woken"]
    /\ ready' = Append(ready, <<"exec", r>>)
    /\ UNCHANGED <<running_tasks, call, nCalls>>
    /\ UNCHANGED svars
    /\ UNCHANGED pvars

\* The body resumes after its sleep and returns its result.
BodyFinish(r) ==
    /\ Head1("exec", r)
    /\ task[r].state = "woken" /\ ~task[r].must_cancel
    /\ task' = [task EXCEPT ![r].state = "finished",
                            ![r].result = BodyResult(call[r].trigger_method,
                                                     call[r].cron_expression),
                            ![r].callbacks = <<>>]
    /\ ready' = Tail(ready) \o Wakeups(task[r].callbacks)
    /\ UNCHANGED <<running_tasks, call, nCalls>>
    /\ UNCHANGED svars
    /\ UNCHANGED pvars

\* A step of an execution task whose cancellation was requested: the
\* CancelledError thrown into it is not caught by `except Exception`, so the
\* task ends cancelled.
BodyCancelled(r) ==
    /\ Head1("exec", r)
    /\ task[r].state \in {"pending", "woken"} /\ task[r].must_cancel
    /\ task' = [task EXCEPT ![r].state = "cancelled", ![r].callbacks = <<>>]
    /\ ready' = Tail(ready) \o Wakeups(task[r].callbacks)
    /\ UNCHANGED <<running_tasks, call, nCalls>>
    /\ UNCHANGED svars
    /\ UNCHANGED pvars

\* -------------------------------------------------------------- stop_task
\* Faulty variant of StopNothing: the entry is deleted without the membership test,
\* and the KeyError is reported to the caller.
StopNothing_Raises(c, task_id) ==
    /\ Head1("call", c)
    /\ call[c].pc = "start"
    /\ ~IsRunning(task_id)
    /\ call' = [call EXCEPT ![c] =
                 [NoCall EXCEPT !.op = "stop", !.task_id = task_id,
                                !.pc = "done",
                                !.ret = IF task_id \in DOMAIN running_tasks
                                        THEN Return(TRUE, "")
                                        ELSE Raise("KeyError")]]
    /\ running_tasks' = Cleanup(running_tasks, task_id)
    /\ ready' = Tail(ready)
    /\ UNCHANGED <<task, nCalls>>
    /\ UNCHANGED svars
    /\ UNCHANGED pvars

\* stop_task finds no entry, or one whose task is done: return False.
StopNothing(c, task_id) ==
    /\ Head1("call", c)
    /\ call[c].pc = "start"
    /\ ~IsRunning(task_id)
    /\ call' = [call EXCEPT ![c] =
                 [NoCall EXCEPT !.op = "stop", !.task_id = task_id,
                                !.pc = "done", !.ret = Return(FALSE, "")]]
    /\ ready' = Tail(ready)
    /\ UNCHANGED <<running_tasks, task, nCalls>>
    /\ UNCHANGED svars
    /\ UNCHANGED pvars

\* Faulty variant of StopCancel: the task is cancelled but not awaited.
StopCancel_NoAwait(c, task_id) ==
    /\ Head1("call", c)
    /\ call[c].pc = "start"
    /\ IsRunning(task_id)
    /\ LET r == running_tasks[task_id]
       IN /\ task' = [task EXCEPT ![r] = cancel(task[r])]
          /\ ready' = IF task[r].state = "sleeping"
                      THEN Append(Tail(ready), <<"exec", r>>)
                      ELSE Tail(ready)
          /\ call' = [call EXCEPT ![c] =
                       [NoCall EXCEPT !.op = "stop", !.task_id = task_id,
                                      !.pc = "done", !.ret = Return(TRUE, ""),
                                      !.handle = r]]
    /\ running_tasks' = Del(running_tasks, task_id)
    /\ UNCHANGED nCalls
    /\ UNCHANGED svars
    /\ UNCHANGED pvars

\* stop_task finds a task that is not done: task.cancel(), then `await task`.
StopCancel(c, task_id) ==
    /\ Head1("call", c)
    /\ call[c].pc = "start"
    /\ IsRunning(task_id)
    /\ LET r == running_tasks[task_id]
           t == cancel(task[r])
       IN /\ task' = [task EXCEPT ![r] =
                       [t EXCEPT !.callbacks = Append(t.callbacks, c)]]
          /\ ready' = IF task[r].state = "sleeping"
                      THEN Append(Tail(ready), <<"exec", r>>)
                      ELSE Tail(ready)
          /\ call' = [call EXCEPT ![c] =
                       [NoCall EXCEPT !.op = "stop", !.task_id = task_id,
                                      !.pc = "awaiting", !.handle = r]]
    /\ UNCHANGED <<running_tasks, nCalls>>
    /\ UNCHANGED svars
    /\ UNCHANGED pvars

\* stop_task after `await task`: the CancelledError is caught, then
\* `del self.running_tasks[task_id]`; a KeyError raised by the del is caught
\* by the outer `except Exception`, which returns False.
StopResume(c) ==
    /\ Head1("call", c)
    /\ call[c].op = "stop" /\ call[c].pc = "awaiting"
    /\ done(call[c].handle)
    /\ IF call[c].task_id \in DOMAIN running_tasks
       THEN /\ running_tasks' = Del(running_tasks, call[c].task_id)
            /\ call' = [call EXCEPT ![c].pc = "done", ![c].ret = Return(TRUE, "")]
       ELSE /\ running_tasks' = running_tasks
            /\ call' = [call EXCEPT ![c].pc = "done", ![c].ret = Return(FALSE, "")]
    /\ ready' = Tail(ready)
    /\ UNCHANGED <<task, nCalls>>
    /\ UNCHANGED svars
    /\ UNCHANGED pvars

\* ------------------------------------------------------------------ Next
\* one iteration of the event loop: the first runnable task runs one step
Step ==
    \/ \E c \in Calls, id \in NextIds, snap \in TaskSnapshots :
          ExecuteReject(c, id, snap)
    \/ \E c \in Calls, id \in NextIds, snap \in TaskSnapshots :
          ExecuteAccept(c, id, snap)
    \/ \E c \in Calls : ExecuteResume(c)
    \/ \E c \in Calls, id \in NextIds : StopNothing(c, id)
    \/ \E c \in Calls, id \in NextIds : StopCancel(c, id)
    \/ \E c \in Calls : StopResume(c)
    \/ \E r \in Calls : BodyStart(r)
    \/ \E r \in Calls : BodyUnsupported(r)
    \/ \E r \in Calls : BodyFinish(r)
    \/ \E r \in Calls : BodyCancelled(r)

Timer == \E r \in Calls : TimerFire(r)

Next == Arrive \/ Timer \/ Step

Spec == Init /\ [][Next]_vars

\* The event loop keeps running its ready queue and timers do expire.
LiveNext == LiveArrive \/ Timer \/ Step

LiveSpec == Init /\ [][LiveNext]_vars /\ WF_vars(Step) /\ WF_vars(Timer)

\* ------------------------------------------------------------ TaskScheduler
\* Task descriptors handed to schedule_task
SchedSnapshots ==
    { [trigger_method |-> Scheduled, cron_expression |-> "* * * * *"],
      [trigger_method |-> Scheduled, cron_expression |-> "0 0 31 2 *"],
      [trigger_method |-> Manual, cron_expression |-> "* * * * *"],
      [trigger_method |-> Scheduled, cron_expression |-> ""],
      [trigger_method |-> Scheduled, cron_expression |-> "61 * * * *"] }

\* the task id handed to schedule_task, and to the callers that use the
\* executors beside the scheduler
SchedIds == {1}

\* `task_id in d` and its task is not done(), for a running_tasks map d
Running(d, task_id) == task_id \in DOMAIN d /\ ~done(d[task_id])

loopDone(l) == loop[l].state \in {"finished", "cancelled"}

\* asyncio.Task.cancel() on the loop l. A done loop is left alone. A loop
\* suspended in asyncio.sleep has its sleep cancelled and becomes runnable; a
\* loop suspended in execute_task passes the cancellation on to the execution
\* task it awaits; in every case a CancelledError is thrown at its next step.
LoopsAfterCancel(l) ==
    IF loopDone(l) THEN loop
    ELSE [loop EXCEPT ![l].must_cancel = TRUE,
                      ![l].state = IF @ = "sleeping" THEN "woken" ELSE @]

\* Faulty variant of TasksAfterCancel: cancelling the loop does not reach the
\* execution task the loop is awaiting.
TasksAfterCancel_LoopOnly(l) == task

TasksAfterCancel(l) ==
    IF loop[l].state = "awaiting" /\ ~done(loop[l].run)
    THEN [task EXCEPT ![loop[l].run] = cancel(@)]
    ELSE task

ReadyAfterCancel(l) ==
    IF loop[l].state = "sleeping"
    THEN Append(ready, <<"loop", l>>)
    ELSE IF loop[l].state = "awaiting" /\ task[loop[l].run].state = "sleeping"
         THEN Append(ready, <<"exec", loop[l].run>>)
         ELSE ready

\* Faulty variant of ScheduleReject: the loop stored for the id is unscheduled
\* before the task is examined.
ScheduleReject_Unschedules(task_id, snap) ==
    /\ \/ snap.trigger_method # Scheduled
       \/ snap.cron_expression = ""
       \/ ~validate_cron_expression(snap.cron_expression)
    /\ IF task_id \in DOMAIN scheduled_tasks
       THEN /\ loop' = LoopsAfterCancel(scheduled_tasks[task_id])
            /\ task' = TasksAfterCancel(scheduled_tasks[task_id])
            /\ ready' = ReadyAfterCancel(scheduled_tasks[task_id])
       ELSE UNCHANGED <<loop, task, ready>>
    /\ scheduled_tasks' = Cleanup(scheduled_tasks, task_id)
    /\ last' = Called("schedule", task_id, snap, FALSE)
    /\ UNCHANGED <<running_tasks, call, nCalls>>
    /\ UNCHANGED <<executor_running_tasks, nLoops, now, fired>>
    /\ UNCHANGED pvars

\* schedule_task returns False before touching anything: wrong trigger
\* method, empty expression, or an expression that does not validate.
ScheduleReject(task_id, snap) ==
    /\ \/ snap.trigger_method # Scheduled
       \/ snap.cron_expression = ""
       \/ ~validate_cron_expression(snap.cron_expression)
    /\ last' = Called("schedule", task_id, snap, FALSE)
    /\ UNCHANGED <<running_tasks, task, call, ready, nCalls>>
    /\ UNCHANGED <<scheduled_tasks, executor_running_tasks, loop, nLoops, now,
                   fired>>
    /\ UNCHANGED pvars

\* Faulty variant of ScheduleAccept: the loop is created and stored without
\* unscheduling the loop already stored for the id.
ScheduleAccept_NoUnschedule(task_id, snap) ==
    /\ nLoops < MaxLoops
    /\ snap.trigger_method = Scheduled
    /\ snap.cron_expression # ""
    /\ validate_cron_expression(snap.cron_expression)
    /\ loop' = [loop EXCEPT ![nLoops + 1] =
                 [NoLoop EXCEPT !.state = "pending", !.task_id = task_id,
                                !.cron_expression = snap.cron_expression]]
    /\ ready' = Append(ready, <<"loop", nLoops + 1>>)
    /\ scheduled_tasks' = Put(scheduled_tasks, task_id, nLoops + 1)
    /\ nLoops' = nLoops + 1
    /\ last' = Called("schedule", task_id, snap, TRUE)
    /\ UNCHANGED <<running_tasks, task, call, nCalls, executor_running_tasks,
                   now, fired>>
    /\ UNCHANGED pvars

\* schedule_task for an acceptable task: unschedule_task(task.task_id), then
\* create the loop task and store it. The call is synchronous, so the loop
\* created here takes its first step later.
ScheduleAccept(task_id, snap) ==
    /\ nLoops < MaxLoops
    /\ snap.trigger_method = Scheduled
    /\ snap.cron_expression # ""
    /\ validate_cron_expression(snap.cron_expression)
    /\ LET l == nLoops + 1
           new == [NoLoop EXCEPT !.state = "pending", !.task_id = task_id,
                                 !.cron_expression = snap.cron_expression]
       IN  IF task_id \in DOMAIN scheduled_tasks
           THEN LET old == scheduled_tasks[task_id]
                IN  /\ loop' = [LoopsAfterCancel(old) EXCEPT ![l] = new]
                    /\ task' = TasksAfterCancel(old)
                    /\ ready' = Append(ReadyAfterCancel(old), <<"loop", l>>)
           ELSE /\ loop' = [loop EXCEPT ![l] = new]
                /\ task' = task
                /\ ready' = Append(ready, <<"loop", l>>)
    /\ scheduled_tasks' = Put(Cleanup(scheduled_tasks, task_id), task_id,
                              nLoops + 1)
    /\ nLoops' = nLoops + 1
    /\ last' = Called("schedule", task_id, snap, TRUE)
    /\ UNCHANGED <<running_tasks, call, nCalls, executor_running_tasks, now,
                   fired>>
    /\ UNCHANGED pvars

\* Faulty variant of UnscheduleExisting: the loop is cancelled but its entry
\* is left in scheduled_tasks.
UnscheduleExisting_KeepsEntry(task_id) ==
    /\ task_id \in DOMAIN scheduled_tasks
    /\ LET old == scheduled_tasks[task_id]
       IN  /\ loop' = LoopsAfterCancel(old)
           /\ task' = TasksAfterCancel(old)
           /\ ready' = ReadyAfterCancel(old)
    /\ last' = Called("unschedule", task_id, NoSnap, TRUE)
    /\ UNCHANGED <<running_tasks, call, nCalls, executor_running_tasks,
                   nLoops, now, fired, scheduled_tasks>>
    /\ UNCHANGED pvars

\* unschedule_task for an id in scheduled_tasks: cancel, delete, return True
UnscheduleExisting(task_id) ==
    /\ task_id \in DOMAIN scheduled_tasks
    /\ LET old == scheduled_tasks[task_id]
       IN  /\ loop' = LoopsAfterCancel(old)
           /\ task' = TasksAfterCancel(old)
           /\ ready' = ReadyAfterCancel(old)
    /\ scheduled_tasks' = Del(scheduled_tasks, task_id)
    /\ last' = Called("unschedule", task_id, NoSnap, TRUE)
    /\ UNCHANGED <<running_tasks, call, nCalls, executor_running_tasks,
                   nLoops, now, fired>>
    /\ UNCHANGED pvars

\* unschedule_task for an id that is not in scheduled_tasks: return False
UnscheduleNothing(task_id) ==
    /\ task_id \notin DOMAIN scheduled_tasks
    /\ last' = Called("unschedule", task_id, NoSnap, FALSE)
    /\ UNCHANGED <<running_tasks, task, call, ready, nCalls>>
    /\ UNCHANGED <<scheduled_tasks, executor_running_tasks, loop, nLoops, now,
                   fired>>
    /\ UNCHANGED pvars

\* ----------------------------------------------------------- _schedule_loop
\* Faulty variant of Cycle: after a firing the next run time is computed from
\* the previous next_run instead of the current time.
Cycle_FromPrevious(lp) ==
    LET base == IF lp.next_run = None THEN now ELSE lp.next_run
        next_run == get_next_run_time(lp.cron_expression, base)
    IN  IF next_run = None
        THEN [lp EXCEPT !.state = "finished"]
        ELSE [lp EXCEPT !.state = "sleeping", !.next_run = next_run,
                        !.computed_at = now]

\* Faulty variant of Cycle: a loop that cannot compute its next run time
\* sleeps a minute and tries again.
Cycle_Retries(lp) ==
    LET next_run == get_next_run_time(lp.cron_expression, now)
    IN  [lp EXCEPT !.state = "sleeping",
                   !.next_run = IF next_run = None THEN now + 1 ELSE next_run,
                   !.computed_at = now]

\* The top of the while loop, up to the sleep: compute the next run time from
\* the current time; leave the loop when there is none. Both readings of the
\* clock happen in one step, so wait_seconds is positive and the loop sleeps.
Cycle(lp) ==
    LET next_run == get_next_run_time(lp.cron_expression, now)
    IN  IF next_run = None
        THEN [lp EXCEPT !.state = "finished"]
        ELSE [lp EXCEPT !.state = "sleeping", !.next_run = next_run,
                        !.computed_at = now]

\* The first step of a loop task
LoopStart(l) ==
    /\ Head1("loop", l)
    /\ loop[l].state = "pending" /\ ~loop[l].must_cancel
    /\ loop' = [loop EXCEPT ![l] = Cycle(@)]
    /\ ready' = Tail(ready)
    /\ UNCHANGED <<running_tasks, task, call, nCalls>>
    /\ UNCHANGED <<scheduled_tasks, executor_running_tasks, nLoops, now, fired,
                   last>>
    /\ UNCHANGED pvars

\* loops that have woken to fire: each needs one of the MaxRuns executions
Woken == { l \in Loops : loop[l].state = "woken" /\ ~loop[l].must_cancel }

\* The timer of the loop's asyncio.sleep expires once the clock has reached
\* next_run.
LoopTimerFire(l) ==
    /\ loop[l].state = "sleeping"
    /\ now >= loop[l].next_run
    /\ nCalls + Cardinality(Woken) < MaxRuns
    /\ loop' = [loop EXCEPT ![l].state = "woken"]
    /\ ready' = Append(ready, <<"loop", l>>)
    /\ UNCHANGED <<running_tasks, task, call, nCalls>>
    /\ UNCHANGED <<scheduled_tasks, executor_running_tasks, nLoops, now, fired,
                   last>>
    /\ UNCHANGED pvars

\* Faulty variant of LoopCancelled: the sleep is not interrupted by the
\* cancellation; the loop calls execute_task once more and ends after it.
LoopCancelled_Fires(l) ==
    /\ Head1("loop", l)
    /\ loop[l].state \in {"pending", "woken"} /\ loop[l].must_cancel
    /\ loop' = [loop EXCEPT ![l].state = "finished"]
    /\ fired' = fired \cup {[loop |-> l, next_run |-> loop[l].next_run,
                             computed_at |-> loop[l].computed_at, call |-> 0]}
    /\ ready' = Tail(ready)
    /\ UNCHANGED <<running_tasks, task, call, nCalls>>
    /\ UNCHANGED <<scheduled_tasks, executor_running_tasks, nLoops, now, last>>
    /\ UNCHANGED pvars

\* A step of a loop whose cancellation was requested before it started or
\* while it slept. Before its first step the task ends cancelled; in the
\* sleep the CancelledError is caught by the outer handler and the loop ends.
LoopCancelled(l) ==
    /\ Head1("loop", l)
    /\ loop[l].state \in {"pending", "woken"} /\ loop[l].must_cancel
    /\ loop' = [loop EXCEPT ![l].state = IF @ = "pending" THEN "cancelled"
                                         ELSE "finished"]
    /\ ready' = Tail(ready)
    /\ UNCHANGED <<running_tasks, task, call, nCalls>>
    /\ UNCHANGED <<scheduled_tasks, executor_running_tasks, nLoops, now, fired,
                   last>>
    /\ UNCHANGED pvars

\* the record of a call of execute_task by loop l: the time it was aimed at,
\* when that time was computed, and the call (0 when it was rejected)
Firing(l, c) ==
    [loop |-> l, next_run |-> loop[l].next_run,
     computed_at |-> loop[l].computed_at, call |-> c]

\* Faulty variant of LoopFireAccept: the execution is started and the loop
\* goes on to its next cycle without awaiting it.
LoopFireAccept_NoAwait(l) ==
    /\ Head1("loop", l)
    /\ loop[l].state = "woken" /\ ~loop[l].must_cancel
    /\ ~Running(executor_running_tasks, loop[l].task_id)
    /\ LET c == nCalls + 1
       IN  /\ task' = [task EXCEPT ![c] = [NoTask EXCEPT !.state = "pending"]]
           /\ call' = [call EXCEPT ![c] =
                        [op |-> "fire", task_id |-> loop[l].task_id,
                         trigger_method |-> Scheduled,
                         cron_expression |-> loop[l].cron_expression,
                         pc |-> "awaiting", ret |-> NoRet, handle |-> c]]
           /\ executor_running_tasks' =
                  Put(executor_running_tasks, loop[l].task_id, c)
           /\ ready' = Append(Tail(ready), <<"exec", c>>)
    /\ loop' = [loop EXCEPT ![l] = Cycle([@ EXCEPT !.run = nCalls + 1])]
    /\ fired' = fired \cup {Firing(l, nCalls + 1)}
    /\ nCalls' = nCalls + 1
    /\ UNCHANGED running_tasks
    /\ UNCHANGED <<scheduled_tasks, nLoops, now, last>>
    /\ UNCHANGED pvars

\* The loop wakes from its sleep and calls self.executor.execute_task(task);
\* the call is accepted, creates the execution task and awaits it.
LoopFireAccept(l) ==
    /\ Head1("loop", l)
    /\ loop[l].state = "woken" /\ ~loop[l].must_cancel
    /\ ~Running(executor_running_tasks, loop[l].task_id)
    /\ LET c == nCalls + 1
       IN  /\ task' = [task EXCEPT ![c] = [NoTask EXCEPT !.state = "pending",
                                                         !.callbacks = <<c>>]]
           /\ call' = [call EXCEPT ![c] =
                        [op |-> "fire", task_id |-> loop[l].task_id,
                         trigger_method |-> Scheduled,
                         cron_expression |-> loop[l].cron_expression,
                         pc |-> "awaiting", ret |-> NoRet, handle |-> c]]
           /\ executor_running_tasks' =
                  Put(executor_running_tasks, loop[l].task_id, c)
           /\ ready' = Append(Tail(ready), <<"exec", c>>)
    /\ loop' = [loop EXCEPT ![l].state = "awaiting", ![l].run = nCalls + 1]
    /\ fired' = fired \cup {Firing(l, nCalls + 1)}
    /\ nCalls' = nCalls + 1
    /\ UNCHANGED running_tasks
    /\ UNCHANGED <<scheduled_tasks, nLoops, now, last>>
    /\ UNCHANGED pvars

\* Faulty variant of LoopFireReject: the exception of execute_task is not
\* caught inside the while loop and ends the loop.
LoopFireReject_Ends(l) ==
    /\ Head1("loop", l)
    /\ loop[l].state = "woken" /\ ~loop[l].must_cancel
    /\ Running(executor_running_tasks, loop[l].task_id)
    /\ executor_running_tasks' =
           Cleanup(executor_running_tasks, loop[l].task_id)
    /\ loop' = [loop EXCEPT ![l].state = "finished"]
    /\ fired' = fired \cup {Firing(l, 0)}
    /\ ready' = Tail(ready)
    /\ UNCHANGED <<running_tasks, task, call, nCalls>>
    /\ UNCHANGED <<scheduled_tasks, nLoops, now, last>>
    /\ UNCHANGED pvars

\* The loop wakes and calls execute_task while the id is running in the
\* scheduler's executor: execute_task raises, its finally clause deletes the
\* entry, the loop logs the exception and goes on to its next cycle.
LoopFireReject(l) ==
    /\ Head1("loop", l)
    /\ loop[l].state = "woken" /\ ~loop[l].must_cancel
    /\ Running(executor_running_tasks, loop[l].task_id)
    /\ executor_running_tasks' =
           Cleanup(executor_running_tasks, loop[l].task_id)
    /\ loop' = [loop EXCEPT ![l] = Cycle(@)]
    /\ fired' = fired \cup {Firing(l, 0)}
    /\ ready' = Tail(ready)
    /\ UNCHANGED <<running_tasks, task, call, nCalls>>
    /\ UNCHANGED <<scheduled_tasks, nLoops, now, last>>
    /\ UNCHANGED pvars

\* `await execution_task` ends inside the loop's execute_task call: the
\* finally clause deletes the entry; a result is returned to the loop, which
\* starts its next cycle; a CancelledError goes through `except Exception`
\* to the outer handler, which ends the loop.
LoopResume(l) ==
    /\ loop[l].state = "awaiting"
    /\ Head1("call", loop[l].run)
    /\ LET c == loop[l].run
           cancelled == task[c].state = "cancelled" \/ loop[l].must_cancel
       IN  /\ done(c)
           /\ call' = [call EXCEPT ![c].pc = "done",
                                   ![c].ret = IF cancelled
                                              THEN Raise(CancelledError)
                                              ELSE task[c].result]
           /\ loop' = [loop EXCEPT ![l] = IF cancelled
                                          THEN [@ EXCEPT !.state = "finished"]
                                          ELSE Cycle(@)]
    /\ executor_running_tasks' =
           Cleanup(executor_running_tasks, loop[l].task_id)
    /\ ready' = Tail(ready)
    /\ UNCHANGED <<running_tasks, task, nCalls>>
    /\ UNCHANGED <<scheduled_tasks, nLoops, now, fired, last>>
    /\ UNCHANGED pvars

\* The clock advances by one minute.
Tick ==
    /\ now < MaxTime
    /\ now' = now + 1
    /\ UNCHANGED <<running_tasks, task, call, ready, nCalls>>
    /\ UNCHANGED <<scheduled_tasks, executor_running_tasks, loop, nLoops,
                   fired, last>>
    /\ UNCHANGED pvars

\* ------------------------------------ execute_task on task_scheduler.executor
\* A caller other than the loops runs a task on the scheduler's executor.
SchedulerExecuteReject(c, task_id, snap) ==
    /\ Head1("call", c)
    /\ call[c].pc = "start"
    /\ Running(executor_running_tasks, task_id)
    /\ call' = [call EXCEPT ![c] =
                 [op |-> "sexecute", task_id |-> task_id,
                  trigger_method |-> snap.trigger_method,
                  cron_expression |-> snap.cron_expression,
                  pc |-> "done", ret |-> Raise(TaskAlreadyRunning),
                  handle |-> 0]]
    /\ executor_running_tasks' = Cleanup(executor_running_tasks, task_id)
    /\ ready' = Tail(ready)
    /\ UNCHANGED <<running_tasks, task, nCalls>>
    /\ UNCHANGED <<scheduled_tasks, loop, nLoops, now, fired, last>>
    /\ UNCHANGED pvars

SchedulerExecuteAccept(c, task_id, snap) ==
    /\ Head1("call", c)
    /\ call[c].pc = "start"
    /\ ~Running(executor_running_tasks, task_id)
    /\ task' = [task EXCEPT ![c] = [NoTask EXCEPT !.state = "pending",
                                                  !.callbacks = <<c>>]]
    /\ executor_running_tasks' = Put(executor_running_tasks, task_id, c)
    /\ call' = [call EXCEPT ![c] =
                 [op |-> "sexecute", task_id |-> task_id,
                  trigger_method |-> snap.trigger_method,
                  cron_expression |-> snap.cron_expression,
                  pc |-> "awaiting", ret |-> NoRet, handle |-> c]]
    /\ ready' = Append(Tail(ready), <<"exec", c>>)
    /\ UNCHANGED <<running_tasks, nCalls>>
    /\ UNCHANGED <<scheduled_tasks, loop, nLoops, now, fired, last>>
    /\ UNCHANGED pvars

SchedulerExecuteResume(c) ==
    /\ Head1("call", c)
    /\ call[c].op = "sexecute" /\ call[c].pc = "awaiting"
    /\ done(c)
    /\ call' = [call EXCEPT ![c].pc = "done",
                            ![c].ret = IF task[c].state = "cancelled"
                                       THEN Raise(CancelledError)
                                       ELSE task[c].result]
    /\ executor_running_tasks' =
           Cleanup(executor_running_tasks, call[c].task_id)
    /\ ready' = Tail(ready)
    /\ UNCHANGED <<running_tasks, task, nCalls>>
    /\ UNCHANGED <<scheduled_tasks, loop, nLoops, now, fired, last>>
    /\ UNCHANGED pvars

\* --------------------------------------- stop_task on task_scheduler.executor
SchedulerStopNothing(c, task_id) ==
    /\ Head1("call", c)
    /\ call[c].pc = "start"
    /\ ~Running(executor_running_tasks, task_id)
    /\ call' = [call EXCEPT ![c] =
                 [NoCall EXCEPT !.op = "sstop", !.task_id = task_id,
                                !.pc = "done", !.ret = Return(FALSE, "")]]
    /\ ready' = Tail(ready)
    /\ UNCHANGED <<running_tasks, task, nCalls>>
    /\ UNCHANGED svars
    /\ UNCHANGED pvars

SchedulerStopCancel(c, task_id) ==
    /\ Head1("call", c)
    /\ call[c].pc = "start"
    /\ Running(executor_running_tasks, task_id)
    /\ LET r == executor_running_tasks[task_id]
           t == cancel(task[r])
       IN /\ task' = [task EXCEPT ![r] =
                       [t EXCEPT !.callbacks = Append(t.callbacks, c)]]
          /\ ready' = IF task[r].state = "sleeping"
                      THEN Append(Tail(ready), <<"exec", r>>)
                      ELSE Tail(ready)
          /\ call' = [call EXCEPT ![c] =
                       [NoCall EXCEPT !.op = "sstop", !.task_id = task_id,
                                      !.pc = "awaiting", !.handle = r]]
    /\ UNCHANGED <<running_tasks, nCalls>>
    /\ UNCHANGED svars
    /\ UNCHANGED pvars

SchedulerStopResume(c) ==
    /\ Head1("call", c)
    /\ call[c].op = "sstop" /\ call[c].pc = "awaiting"
    /\ done(call[c].handle)
    /\ IF call[c].task_id \in DOMAIN executor_running_tasks
       THEN /\ executor_running_tasks' =
                   Del(executor_running_tasks, call[c].task_id)
            /\ call' = [call EXCEPT ![c].pc = "done", ![c].ret = Return(TRUE, "")]
       ELSE /\ executor_running_tasks' = executor_running_tasks
            /\ call' = [call EXCEPT ![c].pc = "done", ![c].ret = Return(FALSE, "")]
    /\ ready' = Tail(ready)
    /\ UNCHANGED <<running_tasks, task, nCalls>>
    /\ UNCHANGED <<scheduled_tasks, loop, nLoops, now, fired, last>>
    /\ UNCHANGED pvars

\* ------------------------------------------- the scheduler's specification
\* The scheduler alone: schedule_task and unschedule_task are called at any
\* moment, the clock advances, the loops and their executions take their
\* steps in the order of the event loop's queue.
SchedCall ==
    \/ \E task_id \in SchedIds, snap \in SchedSnapshots :
          ScheduleReject(task_id, snap)
    \/ \E task_id \in SchedIds, snap \in SchedSnapshots :
          ScheduleAccept(task_id, snap)
    \/ \E task_id \in TaskIds : UnscheduleExisting(task_id)
    \/ \E task_id \in TaskIds : UnscheduleNothing(task_id)

SchedTimer ==
    \/ \E r \in Calls : TimerFire(r)
    \/ \E l \in Loops : LoopTimerFire(l)

\* No other caller uses the scheduler's executor here, and the execution of a
\* cancelled loop ends before the loop that replaces it takes its first step,
\* so execute_task accepts every firing.
SchedStep ==
    \/ \E r \in Calls : BodyStart(r)
    \/ \E r \in Calls : BodyFinish(r)
    \/ \E r \in Calls : BodyCancelled(r)
    \/ \E l \in Loops : LoopStart(l)
    \/ \E l \in Loops : LoopCancelled(l)
    \/ \E l \in Loops : LoopFireAccept(l)
    \/ \E l \in Loops : LoopResume(l)

SchedNext == SchedCall \/ Tick \/ SchedTimer \/ SchedStep

SchedSpec == Init /\ [][SchedNext]_vars

\* --------------------------------- the scheduler beside other callers
\* calls made by callers other than the loops
ManualCalls == { c \in Calls : call[c].pc # "none" /\ call[c].op # "fire" }

\* a caller other than the loops arrives
BusyArrive ==
    /\ Cardinality(ManualCalls) < MaxManual
    /\ nCalls + Cardinality(Woken) < MaxRuns
    /\ Arrive

ManualSnapshots == { snap \in TaskSnapshots : snap.trigger_method = Manual }

BusyCall ==
    \/ \E task_id \in SchedIds, snap \in SchedSnapshots :
          nLoops < MaxBusyLoops /\ ScheduleAccept(task_id, snap)
    \/ \E task_id \in SchedIds : UnscheduleExisting(task_id)

\* The caller that arrived runs a task on the module's task_executor, or runs
\* or stops one on the scheduler's executor.
BusyStep ==
    \/ \E c \in Calls, task_id \in SchedIds, snap \in ManualSnapshots :
          ExecuteAccept(c, task_id, snap)
    \/ \E c \in Calls : ExecuteResume(c)
    \/ \E c \in Calls, task_id \in SchedIds, snap \in ManualSnapshots :
          SchedulerExecuteAccept(c, task_id, snap)
    \/ \E c \in Calls, task_id \in SchedIds, snap \in ManualSnapshots :
          SchedulerExecuteReject(c, task_id, snap)
    \/ \E c \in Calls : SchedulerExecuteResume(c)
    \/ \E c \in Calls, task_id \in SchedIds : SchedulerStopNothing(c, task_id)
    \/ \E c \in Calls, task_id \in SchedIds : SchedulerStopCancel(c, task_id)
    \/ \E c \in Calls : SchedulerStopResume(c)
    \/ \E l \in Loops : LoopFireReject(l)

BusyNext == BusyArrive \/ BusyCall \/ Tick \/ SchedTimer \/ SchedStep \/ BusyStep

BusySpec == Init /\ [][BusyNext]_vars

\* --------------------------------- two task ids beside one scheduler
\* Two task ids are scheduled with the same computable expression; a caller
\* other than the loops runs or stops either id on the scheduler's executor.
\* each id is scheduled once, the ids in order of first use
IsoNextIds ==
    LET ScheduledIds == { loop[l].task_id : l \in Loops } \ {0}
    IN  { id \in TaskIds \ ScheduledIds : id = 1 \/ id - 1 \in ScheduledIds }

\* a single caller other than the loops arrives
IsoArrive ==
    /\ ManualCalls = {}
    /\ Arrive

IsoCall ==
    \/ \E task_id \in IsoNextIds :
          ScheduleAccept(task_id, [trigger_method |-> Scheduled,
                                   cron_expression |-> "* * * * *"])
    \/ \E task_id \in TaskIds : UnscheduleExisting(task_id)

IsoTick == now < MaxIsoTime /\ Tick

IsoStep ==
    \/ \E c \in Calls, task_id \in TaskIds, snap \in ManualSnapshots :
          SchedulerExecuteAccept(c, task_id, snap)
    \/ \E c \in Calls, task_id \in TaskIds, snap \in ManualSnapshots :
          SchedulerExecuteReject(c, task_id, snap)
    \/ \E c \in Calls : SchedulerExecuteResume(c)
    \/ \E c \in Calls, task_id \in TaskIds : SchedulerStopNothing(c, task_id)
    \/ \E c \in Calls, task_id \in TaskIds : SchedulerStopCancel(c, task_id)
    \/ \E c \in Calls : SchedulerStopResume(c)
    \/ \E l \in Loops : LoopFireReject(l)

IsoNext == IsoArrive \/ IsoCall \/ IsoTick \/ SchedTimer \/ SchedStep \/ IsoStep

IsoSpec == Init /\ [][IsoNext]_vars

\* ============================================================ TaskValidator
\* A str is the sequence of its characters.

\* str.strip(), for the whitespace tried here
RECURSIVE lstrip(_)
lstrip(s) == IF s # <<>> /\ Head(s) = " " THEN lstrip(Tail(s)) ELSE s

RECURSIVE rstrip(_)
rstrip(s) ==
    IF s # <<>> /\ s[Len(s)] = " " THEN rstrip(SubSeq(s, 1, Len(s) - 1))
    ELSE s

strip_name(s) == rstrip(lstrip(s))

\* `char in task_name`
Contains(s, char) == \E i \in 1..Len(s) : s[i] = char

\* what a validator returns: (True, "") or (False, message); the message is
\* given by its kind and by the value it names
Valid == [ok |-> TRUE, msg |-> "", about |-> ""]
Invalid(msg, about) == [ok |-> FALSE, msg |-> msg, about |-> about]

\* The messages, by kind:
\*   "name_empty"     "任务名称不能为空"
\*   "name_too_short" "任务名称长度不能少于2个字符"
\*   "name_too_long"  "任务名称长度不能超过255个字符"
\*   "name_char"      "任务名称不能包含特殊字符: {char}"
\*   "port_not_int"   "端口号必须是整数"
\*   "port_range"     "端口号必须在1-65535之间"
\*   "port_reserved"  "端口号 {port} 为系统保留端口，请使用其他端口"
\*   "invalid_method" "无效的触发方式: {trigger_method}"
\*   "cron_required"  "定时触发任务必须提供cron表达式"
\*   "cron_incorrect" "cron表达式格式不正确"

MinNameLength == 2
MaxNameLength == 255

invalid_chars == <<"<", ">", "\"", "'", "&", "\\", "/", "|">>

\* the first of invalid_chars that occurs in the name, 0 when none does
FirstInvalid(s) ==
    LET found == { i \in 1..Len(invalid_chars) : Contains(s, invalid_chars[i]) }
    IN  IF found = {} THEN 0
        ELSE CHOOSE i \in found : \A j \in found : i <= j

\* Faulty variant of validate_task_name: the name is measured as given.
validate_task_name_Unstripped(task_name) ==
    IF task_name = <<>>
    THEN Invalid("name_empty", "")
    ELSE IF Len(task_name) < MinNameLength THEN Invalid("name_too_short", "")
         ELSE IF Len(task_name) > MaxNameLength THEN Invalid("name_too_long", "")
         ELSE IF FirstInvalid(task_name) # 0
              THEN Invalid("name_char",
                           invalid_chars[FirstInvalid(task_name)])
              ELSE Valid

validate_task_name(task_name) ==
    IF task_name = <<>> \/ strip_name(task_name) = <<>>
    THEN Invalid("name_empty", "")
    ELSE LET name == strip_name(task_name)
         IN  IF Len(name) < MinNameLength THEN Invalid("name_too_short", "")
             ELSE IF Len(name) > MaxNameLength THEN Invalid("name_too_long", "")
             ELSE IF FirstInvalid(name) # 0
                  THEN Invalid("name_char",
                               invalid_chars[FirstInvalid(name)])
                  ELSE Valid

\* Optional[int]: None, an int, or a value of another type
NonePort == [type |-> "NoneType", value |-> 0]
IntPort(p) == [type |-> "int", value |-> p]
StrPort == [type |-> "str", value |-> 0]

MinPort == 1
MaxPort == 65535

reserved_ports == {22, 23, 25, 53, 80, 110, 443, 993, 995}

\* Faulty variant of validate_port: 65535 is taken to be out of range.
validate_port_Exclusive(port) ==
    IF port.type = "NoneType" THEN Valid
    ELSE IF port.type # "int" THEN Invalid("port_not_int", "")
    ELSE IF port.value < MinPort \/ port.value >= MaxPort
         THEN Invalid("port_range", "")
    ELSE IF port.value \in reserved_ports
         THEN Invalid("port_reserved", port.value)
    ELSE Valid

validate_port(port) ==
    IF port.type = "NoneType" THEN Valid
    ELSE IF port.type # "int" THEN Invalid("port_not_int", "")
    ELSE IF port.value < MinPort \/ port.value > MaxPort
         THEN Invalid("port_range", "")
    ELSE IF port.value \in reserved_ports
         THEN Invalid("port_reserved", port.value)
    ELSE Valid

\* Optional[str]: the cron_expression None
NoCron == "None"

\* `not cron_expression`
Falsy(cron_expression) == cron_expression \in {NoCron, ""}

\* Faulty variant of validate_task_data: the port is validated before the
\* trigger method.
validate_task_data_PortFirst(task_name, trigger_method, port, cron_expression) ==
    IF ~validate_task_name(task_name).ok THEN validate_task_name(task_name)
    ELSE IF ~validate_port(port).ok THEN validate_port(port)
    ELSE IF trigger_method \notin {Manual, Scheduled, Event}
         THEN Invalid("invalid_method", trigger_method)
    ELSE IF trigger_method = Scheduled /\ Falsy(cron_expression)
         THEN Invalid("cron_required", "")
    ELSE IF trigger_method = Scheduled
            /\ ~validate_cron_expression(cron_expression)
         THEN Invalid("cron_incorrect", "")
    ELSE Valid

\* Faulty variant of validate_task_data: the cron expression is examined for
\* every trigger method.
validate_task_data_AlwaysCron(task_name, trigger_method, port, cron_expression) ==
    IF ~validate_task_name(task_name).ok THEN validate_task_name(task_name)
    ELSE IF trigger_method \notin {Manual, Scheduled, Event}
         THEN Invalid("invalid_method", trigger_method)
    ELSE IF ~validate_port(port).ok THEN validate_port(port)
    ELSE IF Falsy(cron_expression) THEN Invalid("cron_required", "")
    ELSE IF ~validate_cron_expression(cron_expression)
         THEN Invalid("cron_incorrect", "")
    ELSE Valid

validate_task_data(task_name, trigger_method, port, cron_expression) ==
    IF ~validate_task_name(task_name).ok THEN validate_task_name(task_name)
    ELSE IF trigger_method \notin {Manual, Scheduled, Event}
         THEN Invalid("invalid_method", trigger_method)
    ELSE IF ~validate_port(port).ok THEN validate_port(port)
    ELSE IF trigger_method = Scheduled /\ Falsy(cron_expression)
         THEN Invalid("cron_required", "")
    ELSE IF trigger_method = Scheduled
            /\ ~validate_cron_expression(cron_expression)
         THEN Invalid("cron_incorrect", "")
    ELSE Valid

\* ------------------------------------------- the validators' specification
\* every name of up to MaxNameLen characters, each a letter, a space or one
\* of invalid_chars
ShortNames ==
    LET chars == {"A", " "}
                 \cup { invalid_chars[i] : i \in 1..Len(invalid_chars) }
    IN  UNION { [1..n -> chars] : n \in 0..MaxNameLen }

\* names about as long as the longest allowed, bare or padded with spaces
LongNames ==
    { [i \in 1..l |-> " "] \o [i \in 1..n |-> "A"] \o [i \in 1..r |-> " "] :
        n \in (MaxNameLength - 1)..(MaxNameLength + MaxNameLen),
        l \in 0..1, r \in 0..1 }

\* None, a value that is not an int, and every int from below 1 to above 65535
Ports ==
    {NonePort, StrPort}
    \cup { IntPort(p) : p \in (MinPort - PortMargin)..(MaxPort + PortMargin) }

\* The task data a caller hands to the validators: every name, every port,
\* and every combination of names, trigger methods, ports and cron
\* expressions that pass or fail each check.
ValidatorInputs ==
    LET TaskData(n, m, p, e) ==
            [task_name |-> n, trigger_method |-> m, port |-> p,
             cron_expression |-> e]
    IN  { TaskData(n, Manual, NonePort, NoCron) : n \in ShortNames \cup LongNames }
        \cup { TaskData(<<"A", "B">>, Manual, p, NoCron) : p \in Ports }
        \cup { TaskData(n, m, p, e) :
                 n \in {<<>>, <<"A">>, <<"A", "B">>, <<"A", "<">>},
                 m \in TriggerMethods,
                 p \in {NonePort, StrPort, IntPort(0), IntPort(22),
                        IntPort(8080)},
                 e \in CronExprs \cup {NoCron} }

ValidatorInit ==
    /\ EngineInit
    /\ arg \in ValidatorInputs
    /\ out = NoOut

\* what was called and what it returned
Returned(fn, ret) == [fn |-> fn, ret |-> ret]

ValidateTaskName ==
    /\ out = NoOut
    /\ out' = Returned("validate_task_name", validate_task_name(arg.task_name))
    /\ UNCHANGED <<running_tasks, task, call, ready, nCalls, svars, arg>>

ValidatePort ==
    /\ out = NoOut
    /\ out' = Returned("validate_port", validate_port(arg.port))
    /\ UNCHANGED <<running_tasks, task, call, ready, nCalls, svars, arg>>

ValidateTaskData ==
    /\ out = NoOut
    /\ out' = Returned("validate_task_data",
                       validate_task_data(arg.task_name, arg.trigger_method,
                                          arg.port, arg.cron_expression))
    /\ UNCHANGED <<running_tasks, task, call, ready, nCalls, svars, arg>>

ValidatorNext == ValidateTaskName \/ ValidatePort \/ ValidateTaskData

ValidatorSpec == ValidatorInit /\ [][ValidatorNext]_vars

\* ------------------------------------------ CronValidator's specification
\* the arguments of get_next_run_time; validate_cron_expression reads the
\* first
CronInputs ==
    { [cron_expression |-> e, base_time |-> b] :
        e \in CronExprs, b \in 0..MaxBase }

CronInit ==
    /\ EngineInit
    /\ arg \in CronInputs
    /\ out = NoOut

ValidateCronExpression ==
    /\ out = NoOut
    /\ out' = Returned("validate_cron_expression",
                       validate_cron_expression(arg.cron_expression))
    /\ UNCHANGED <<running_tasks, task, call, ready, nCalls, svars, arg>>

GetNextRunTime ==
    /\ out = NoOut
    /\ out' = Returned("get_next_run_time",
                       get_next_run_time(arg.cron_expression, arg.base_time))
    /\ UNCHANGED <<running_tasks, task, call, ready, nCalls, svars, arg>>

CronNext == ValidateCronExpression \/ GetNextRunTime

CronSpec == CronInit /\ [][CronNext]_vars

\* ================================================= TaskStatisticsCalculator
\* ---------------------------------------------------------------- float
\* Python's float is the IEEE 754 binary64: a sign, a significand of 53 bits
\* and an exponent; every operation returns the representable value nearest
\* to the exact result, ties to the even significand. The values met here
\* are far from overflow and underflow.
\*
\* An integer below 2^60 is kept as three limbs of 20 bits, lowest first: a
\* significand has its bit 52 at Limb \div 256 and bit 53 at Limb \div 128 of
\* the highest limb.
Limb == 1048576          \* 2^20

BigOf(n) == <<n % Limb, n \div Limb, 0>>

\* carries (or borrows) propagated upwards
Carry(a) ==
    LET l2 == a[2] + (a[1] \div Limb)
    IN  <<a[1] % Limb, l2 % Limb, a[3] + (l2 \div Limb)>>

BigAdd(x, y) == Carry(<<x[1] + y[1], x[2] + y[2], x[3] + y[3]>>)
\* x - y for x >= y
BigSub(x, y) == Carry(<<x[1] - y[1], x[2] - y[2], x[3] - y[3]>>)
\* x * k for a small k
BigMul(x, k) == Carry(<<x[1] * k, x[2] * k, x[3] * k>>)
BigHalf(x) ==
    <<(x[1] \div 2) + (x[2] % 2) * (Limb \div 2),
      (x[2] \div 2) + (x[3] % 2) * (Limb \div 2),
      x[3] \div 2>>
BigGeq(x, y) ==
    \/ x[3] > y[3]
    \/ x[3] = y[3] /\ x[2] > y[2]
    \/ x[3] = y[3] /\ x[2] = y[2] /\ x[1] >= y[1]

RECURSIVE BigShl(_, _)
BigShl(x, k) == IF k = 0 THEN x ELSE BigShl(BigAdd(x, x), k - 1)

\* a float: sign * m * 2^e with 2^52 <= m < 2^53, or zero
Float(sign, m, e) == [sign |-> sign, m |-> m, e |-> e]
FloatZero == Float(0, <<0, 0, 0>>, 0)

\* an exact value me[1] * 2^me[2] of at most 53 bits, brought to the form
\* above
RECURSIVE Normalize(_, _)
Normalize(sign, me) ==
    IF me[1] = <<0, 0, 0>> THEN FloatZero
    ELSE IF me[1][3] >= Limb \div 256 THEN Float(sign, me[1], me[2])
    ELSE Normalize(sign, <<BigAdd(me[1], me[1]), me[2] - 1>>)

\* The float nearest to sign * (m + fraction) * 2^e, ties to even, for
\* s = <<m, e, guard, sticky>>: bits are dropped from the right until 53 are
\* left; guard is the last bit dropped, sticky tells whether anything
\* non-zero lies below it.
RECURSIVE RoundNearest(_, _)
RoundNearest(sign, s) ==
    LET m == s[1]
        e == s[2]
    IN  IF m[3] >= Limb \div 128
        THEN RoundNearest(sign, <<BigHalf(m), e + 1, m[1] % 2 = 1, s[4] \/ s[3]>>)
        ELSE LET up == s[3] /\ (s[4] \/ m[1] % 2 = 1)
                 r == IF up THEN BigAdd(m, BigOf(1)) ELSE m
             IN  IF r[3] >= Limb \div 128 THEN Float(sign, BigHalf(r), e + 1)
                 ELSE Normalize(sign, <<r, e>>)

\* float(n) for an int n of small magnitude
float_of_int(n) ==
    IF n >= 0 THEN Normalize(1, <<BigOf(n), 0>>)
    ELSE Normalize(-1, <<BigOf(-n), 0>>)

\* long division: k more bits of the quotient qr[1], remainder qr[2],
\* divisor d
RECURSIVE DivBits(_, _, _)
DivBits(qr, d, k) ==
    IF k = 0 THEN qr
    ELSE LET r2 == BigAdd(qr[2], qr[2])
             q2 == BigAdd(qr[1], qr[1])
         IN  IF BigGeq(r2, d)
             THEN DivBits(<<BigAdd(q2, BigOf(1)), BigSub(r2, d)>>, d, k - 1)
             ELSE DivBits(<<q2, r2>>, d, k - 1)

\* x / y for y # 0: the first bit of the quotient and 55 more (53, a guard
\* bit and one to spare), the remainder as the sticky bit
float_div(x, y) ==
    IF x.sign = 0 THEN FloatZero
    ELSE LET qr == IF BigGeq(x.m, y.m)
                   THEN DivBits(<<BigOf(1), BigSub(x.m, y.m)>>, y.m, 55)
                   ELSE DivBits(<<BigOf(0), x.m>>, y.m, 55)
         IN  RoundNearest(x.sign * y.sign,
                          <<qr[1], x.e - y.e - 55, FALSE, qr[2] # <<0, 0, 0>> >>)

\* x + y, for x and y whose exponents differ by less than 7
float_add(x, y) ==
    IF x.sign = 0 THEN y
    ELSE IF y.sign = 0 THEN x
    ELSE LET e == IF x.e < y.e THEN x.e ELSE y.e
             a == BigShl(x.m, x.e - e)
             b == BigShl(y.m, y.e - e)
         IN  IF x.sign = y.sign
             THEN RoundNearest(x.sign, <<BigAdd(a, b), e, FALSE, FALSE>>)
             ELSE IF a = b THEN FloatZero
             ELSE IF BigGeq(a, b)
                  THEN RoundNearest(x.sign, <<BigSub(a, b), e, FALSE, FALSE>>)
                  ELSE RoundNearest(y.sign, <<BigSub(b, a), e, FALSE, FALSE>>)

\* x * k for an int k, 0 < k < 128
float_mul(x, k) ==
    IF x.sign = 0 THEN FloatZero
    ELSE RoundNearest(x.sign, <<BigMul(x.m, k), x.e, FALSE, FALSE>>)

\* x > y
float_gt(x, y) ==
    IF x.sign # y.sign THEN x.sign > y.sign
    ELSE IF x.sign = 0 THEN FALSE
    ELSE LET above == \/ x.e > y.e
                      \/ x.e = y.e /\ x.m # y.m /\ BigGeq(x.m, y.m)
             below == \/ x.e < y.e
                      \/ x.e = y.e /\ x.m # y.m /\ BigGeq(y.m, x.m)
         IN  IF x.sign = 1 THEN above ELSE below

\* the integer nearest to (m + fraction) * 2^e for e <= 0, ties to even, for
\* s = <<m, e, guard, sticky>>
RECURSIVE NearestInt(_)
NearestInt(s) ==
    LET m == s[1]
    IN  IF s[2] < 0
        THEN NearestInt(<<BigHalf(m), s[2] + 1, m[1] % 2 = 1, s[4] \/ s[3]>>)
        ELSE m[1] + m[2] * Limb
             + (IF s[3] /\ (s[4] \/ m[1] % 2 = 1) THEN 1 ELSE 0)

\* round(x, 2), in hundredths: the decimal with two places nearest to the
\* exact value of x
round2(x) == x.sign * NearestInt(<<BigMul(x.m, 100), x.e, FALSE, FALSE>>)

\* ------------------------------------------------------ get_execution_trend
RecentDates == 7
Percent == 100
Threshold == 10

\* sorted(keys): the dates in ascending order
RECURSIVE sorted(_)
sorted(S) ==
    IF S = {} THEN <<>>
    ELSE LET first == CHOOSE d \in S : \A o \in S : d <= o
         IN  <<first>> \o sorted(S \ {first})

\* sum(executions_by_date[date] for date in dates)
RECURSIVE sum(_, _)
sum(executions_by_date, dates) ==
    IF dates = <<>> THEN 0
    ELSE executions_by_date[Head(dates)] + sum(executions_by_date, Tail(dates))

\* what get_execution_trend returns; change_rate is in hundredths
Trend(trend, change_rate) == [trend |-> trend, change_rate |-> change_rate]

get_execution_trend(executions_by_date) ==
    IF DOMAIN executions_by_date = {}
    THEN Trend("stable", 0)
    ELSE
    LET dates == sorted(DOMAIN executions_by_date)
        recent_dates ==
            IF Len(dates) >= RecentDates
            THEN SubSeq(dates, Len(dates) - RecentDates + 1, Len(dates))
            ELSE dates
        half == Len(recent_dates) \div 2
        first_half == SubSeq(recent_dates, 1, half)
        second_half == SubSeq(recent_dates, half + 1, Len(recent_dates))
        first_avg == float_div(float_of_int(sum(executions_by_date, first_half)),
                               float_of_int(Len(first_half)))
        second_avg == float_div(float_of_int(sum(executions_by_date, second_half)),
                                float_of_int(Len(second_half)))
        change_rate ==
            IF first_avg = FloatZero
            THEN IF float_gt(second_avg, FloatZero) THEN float_of_int(Percent)
                 ELSE FloatZero
            ELSE float_mul(float_div(float_add(second_avg,
                                                [first_avg EXCEPT !.sign = -@]),
                                      first_avg), Percent)
        trend ==
            IF float_gt(change_rate, float_of_int(Threshold)) THEN "increasing"
            ELSE IF float_gt(float_of_int(-Threshold), change_rate)
                 THEN "decreasing"
                 ELSE "stable"
    IN  IF Len(dates) < 2 \/ Len(recent_dates) < 2
        THEN Trend("stable", 0)
        ELSE Trend(trend, round2(change_rate))

\* --------------------------------- TaskStatisticsCalculator's specification
\* executions per date: days with few executions, and days with none among
\* busier ones
Counts == {{3, 4}, {0, 4}}

\* the dates are numbered in calendar order
TrendInputs ==
    { [executions_by_date |-> f] :
        f \in UNION { [1..n -> C] : n \in 0..MaxDates, C \in Counts } }

TrendInit ==
    /\ EngineInit
    /\ arg \in TrendInputs
    /\ out = NoOut

GetExecutionTrend ==
    /\ out = NoOut
    /\ out' = Returned("get_execution_trend",
                       get_execution_trend(arg.executions_by_date))
    /\ UNCHANGED <<running_tasks, task, call, ready, nCalls, svars, arg>>

TrendNext == GetExecutionTrend

TrendSpec == TrendInit /\ [][TrendNext]_vars

\* ================================================================ claims
Executes == { c \in Calls : call[c].op = "execute" }
Stops == { c \in Calls : call[c].op = "stop" }

\* the execute_task calls that created an execution task
Accepted == { c \in Executes : call[c].handle = c }

\* the execute_task calls that found the task id running
Rejected == { c \in Executes : call[c].ret = Raise(TaskAlreadyRunning) }

\* what _do_execute_task returns for a snapshot when nothing interferes
ExpectedResult(c) ==
    IF HasBody(call[c].trigger_method)
    THEN BodyResult(call[c].trigger_method, call[c].cron_expression)
    ELSE UnsupportedResult

\* C1: single-flight. For every task id at most one execution body is in
\* flight at any instant (so execute_task is accepted only when none is).
C1_SingleFlight ==
    \A id \in TaskIds :
        Cardinality({ r \in Accepted : call[r].task_id = id /\ InFlight(r) }) <= 1

\* C2: an execute_task call rejected because the task id is running leaves
\* running_tasks exactly as it was.
C2_RejectNoSideEffects ==
    [][ \A c \in Calls :
          (call[c].pc = "start" /\ call'[c].ret = Raise(TaskAlreadyRunning))
              => running_tasks' = running_tasks ]_vars

\* C3: when an execute_task call that installed a handle exits, by any path,
\* running_tasks holds no entry for its task id (the next execute_task for the
\* id passes the running check), and the handle of a call that has exited is
\* never in running_tasks.
C3_HandleRemovedOnExit ==
    [][ \A c \in Calls :
          /\ (call[c].op = "execute" /\ call[c].pc = "awaiting"
                 /\ call'[c].pc = "done")
               => call[c].task_id \notin DOMAIN running_tasks'
          /\ (call'[c].op = "execute" /\ call'[c].pc = "done"
                 /\ call'[c].handle = c)
               => \A id \in DOMAIN running_tasks' : running_tasks'[id] # c
      ]_vars

\* an accepted execute_task call has exited through cancellation
C3_Witness ==
    \E c \in Accepted :
        /\ call[c].pc = "done"
        /\ call[c].ret = Raise(CancelledError)
        /\ call[c].task_id \notin DOMAIN running_tasks

\* C4: a stop_task call that found a running handle returns True.
C4_StopReturnsTrue ==
    \A c \in Stops :
        (call[c].pc = "done" /\ call[c].handle # 0) => call[c].ret = Return(TRUE, "")

\* C5: when a stop_task call that found a running handle has returned, the
\* execution it cancelled is no longer in flight.
C5_StopSynchronous ==
    \A c \in Stops :
        (call[c].pc = "done" /\ call[c].handle # 0) => done(call[c].handle)

\* a stop_task call that cancelled a run has returned
C5_Witness ==
    \E c \in Stops :
        /\ call[c].pc = "done" /\ call[c].handle # 0
        /\ task[call[c].handle].state = "cancelled"

\* C6: stop_task on a task id that is not running (no entry, or an entry
\* whose task is done) returns False without raising and leaves
\* running_tasks unchanged.
C6_StopNothing ==
    [][ \A c \in Calls :
          (call[c].pc = "start" /\ call'[c].op = "stop"
              /\ ~IsRunning(call'[c].task_id))
            => /\ call'[c].pc = "done"
               /\ call'[c].ret = Return(FALSE, "")
               /\ running_tasks' = running_tasks ]_vars

\* a stop_task call found nothing to stop while another task id was running
C6_Witness ==
    \E c \in Stops :
        /\ call[c].pc = "done" /\ call[c].handle = 0
        /\ call[c].ret = Return(FALSE, "")
        /\ running_tasks # <<>>

\* C7: the execute_task call of a cancelled execution returns a result with
\* success = False and an error naming the cancellation; it does not raise.
C7_CancelReturnsResult ==
    \A c \in Accepted :
        (call[c].pc = "done" /\ task[c].state = "cancelled")
            => /\ call[c].ret.kind = "return"
               /\ ~call[c].ret.success
               /\ call[c].ret.error # ""

\* C8: an error raised by a task body (unsupported trigger method, failure
\* while computing the next run time) comes back from execute_task as a result
\* with success = False and an error message; execute_task raises only when it
\* rejected the call (cancellation is C7's subject).
C8_BodyErrorsCaptured ==
    \A c \in Executes :
        call[c].pc = "done" =>
            /\ (c \in Accepted /\ task[c].state = "finished")
                 => /\ call[c].ret.kind = "return"
                    /\ ~call[c].ret.success => call[c].ret.error # ""
            /\ (c \in Accepted /\ task[c].state = "finished"
                   /\ (\/ call[c].trigger_method \notin {Manual, Scheduled, Event}
                       \/ /\ call[c].trigger_method = Scheduled
                          /\ call[c].cron_expression = "61 * * * *"))
                 => (call[c].ret.kind = "return" /\ ~call[c].ret.success)
            /\ (call[c].ret.kind = "raise" /\ task[c].state # "cancelled")
                 => (c \notin Accepted /\ call[c].ret = Raise(TaskAlreadyRunning))

\* both kinds of body error have been returned as failure results
C8_Witness ==
    \E c, d \in Accepted :
        /\ call[c].pc = "done" /\ call[c].trigger_method = Unknown
        /\ call[c].ret = Return(FALSE, "unsupported trigger method")
        /\ call[d].pc = "done" /\ call[d].trigger_method = Scheduled
        /\ call[d].ret.kind = "return" /\ ~call[d].ret.success

\* C9: a run during which another execute_task call was rejected, and which
\* no stop_task call cancelled, returns to its caller the result its body
\* produces.
C9_RejectKeepsResult ==
    \A c \in Accepted :
        (/\ call[c].pc = "done"
         /\ \E d \in Rejected : call[d].handle = c
         /\ ~\E s \in Stops : call[s].handle = c)
            => call[c].ret = ExpectedResult(c)

\* a run has returned its result after a second call was rejected
C9_Witness ==
    \E c \in Accepted :
        /\ call[c].pc = "done"
        /\ \E d \in Rejected : call[d].handle = c
        /\ call[c].ret = Return(TRUE, "")

\* C10: under fair scheduling every accepted execute_task call returns, its
\* execution leaves the running state, and a task id that has a handle
\* eventually has none.
C10_EventuallyIdle ==
    /\ \A c \in Calls :
          (call[c].op = "execute" /\ call[c].pc = "awaiting")
              ~> (call[c].pc = "done" /\ done(c)
                     /\ call[c].task_id \notin DOMAIN running_tasks)
    /\ \A id \in TaskIds :
          (id \in DOMAIN running_tasks) ~> (id \notin DOMAIN running_tasks)

\* an accepted call has returned and its task id is idle again
C10_Witness ==
    \E c \in Accepted :
        /\ call[c].pc = "done" /\ call[c].ret.kind = "return"
        /\ running_tasks = <<>>
        /\ \A r \in Calls : ~InFlight(r)


\* ------------------------------------------------------------- scheduler
\* the loops that schedule_task has created
Created == { l \in Loops : loop[l].state # "none" }

\* a loop that can still call execute_task: it has not ended and no
\* cancellation has been requested
AbleToFire(l) == l \in Created /\ ~loopDone(l) /\ ~loop[l].must_cancel

\* C11: for every task id at most one loop is able to fire, and no cron
\* instant of a task id is fired twice, be it by one loop or by an old and a
\* new loop of that id.
C11_OneRecurrencePerId ==
    /\ \A l1, l2 \in Loops :
          /\ AbleToFire(l1) /\ AbleToFire(l2)
          /\ loop[l1].task_id = loop[l2].task_id
          => l1 = l2
    /\ \A f, g \in fired :
          /\ loop[f.loop].task_id = loop[g.loop].task_id
          /\ f.next_run = g.next_run
          => f = g

\* an old and a new loop of one task id have both fired
C11_Witness ==
    \E f, g \in fired :
        /\ f.loop # g.loop
        /\ loop[f.loop].task_id = loop[g.loop].task_id
        /\ scheduled_tasks[loop[g.loop].task_id] = g.loop

\* C12: when schedule_task replaces the loop stored for a task id, the loop
\* that was stored has exited by the time the new one is stored.
C12_OldLoopExitedFirst ==
    [][\A task_id \in DOMAIN scheduled_tasks :
          /\ task_id \in DOMAIN scheduled_tasks'
          /\ scheduled_tasks'[task_id] # scheduled_tasks[task_id]
          => loop'[scheduled_tasks[task_id]].state \in {"finished", "cancelled"}
      ]_vars

\* C13: a loop whose cancellation has been requested makes no further call of
\* execute_task: every firing is made by a loop that was not cancelled.
C13_CancelledNeverFires ==
    [][\A f \in fired' \ fired : ~loop[f.loop].must_cancel]_vars

\* the cancellation arrived during the sleep and the computed next_run has
\* passed: the loop is runnable, its instant is due, and it has not fired it
C13_Witness ==
    \E l \in Loops :
        /\ loop[l].state = "woken" /\ loop[l].must_cancel
        /\ now >= loop[l].next_run
        /\ \A f \in fired : f.loop = l => f.next_run < loop[l].next_run

\* the firings of loop l that execute_task accepted
Accepts(l) == { f \in fired : f.loop = l /\ f.call # 0 }

\* C15: while a loop computes its next run time, sleeps, or is about to fire,
\* every execute_task call it made has returned; two firings of one loop are
\* never both unreturned.
C15_FiringsSequential ==
    \A l \in Loops :
        /\ loop[l].state \in {"sleeping", "woken"} =>
              \A f \in Accepts(l) : call[f.call].pc = "done"
        /\ \A f, g \in Accepts(l) :
              f # g => call[f.call].pc = "done" \/ call[g.call].pc = "done"

\* a loop has fired twice and is in its third cycle
C15_Witness ==
    \E l \in Loops :
        /\ Cardinality(Accepts(l)) = 2
        /\ loop[l].state = "sleeping"

\* C17: every firing aims at an instant strictly later than the time its
\* next_run was computed at, and of two firings of one loop the later one was
\* computed at or after the instant of the earlier one; so instants that have
\* passed are never fired afterwards. The same holds for the cycle a loop is in.
C17_OnlyFutureFirings ==
    /\ \A f \in fired : f.next_run > f.computed_at
    /\ \A f, g \in fired :
          f.loop = g.loop /\ f # g /\ f.computed_at <= g.computed_at
          => g.computed_at >= f.next_run
    /\ \A l \in Loops :
          loop[l].state \in {"sleeping", "woken", "awaiting"} =>
              /\ loop[l].next_run > loop[l].computed_at
              /\ \A f \in fired :
                    f.loop = l /\ f.next_run # loop[l].next_run
                    => loop[l].computed_at >= f.next_run

\* a loop was busy with a firing while an instant passed, and its next firing
\* skipped that instant
C17_Witness ==
    \E f, g \in fired :
        /\ f.loop = g.loop
        /\ g.next_run > f.next_run + 1
        /\ g.computed_at > f.next_run

\* the task handed to the last schedule_task call is one schedule_task refuses
Refused(c) ==
    \/ c.trigger_method # Scheduled
    \/ c.cron_expression = ""
    \/ ~validate_cron_expression(c.cron_expression)

\* C18: a schedule_task call for a task that is not Scheduled, has an empty
\* expression or an expression that does not validate returns False, and
\* that call leaves scheduled_tasks and every loop as they were: no loop is
\* created and the loop stored for the id is not cancelled.
C18_ScheduleRejects ==
    [][(last' # last /\ last'.op = "schedule" /\ Refused(last'))
       => /\ ~last'.ret
          /\ UNCHANGED <<scheduled_tasks, loop, nLoops, task, ready>>]_vars

\* a refused schedule_task call for an id whose loop is scheduled and alive
C18_Witness ==
    /\ last.op = "schedule" /\ ~last.ret
    /\ last.task_id \in DOMAIN scheduled_tasks
    /\ AbleToFire(scheduled_tasks[last.task_id])

\* C19: unschedule_task returns True exactly when scheduled_tasks had an entry
\* for the id; after the call it has none; the call ends in the same step it
\* cancels in, whether or not the loop has exited.
C19_Unschedule ==
    [][(last' # last /\ last'.op = "unschedule")
       => /\ last'.ret <=> last'.task_id \in DOMAIN scheduled_tasks
          /\ last'.task_id \notin DOMAIN scheduled_tasks'
          /\ DOMAIN scheduled_tasks' = DOMAIN scheduled_tasks \ {last'.task_id}
      ]_vars

\* unschedule_task has returned True and the loop it cancelled has not exited
C19_Witness ==
    /\ last.op = "unschedule" /\ last.ret
    /\ \E l \in Loops :
          /\ loop[l].task_id = last.task_id
          /\ loop[l].must_cancel /\ ~loopDone(l)

\* a loop that has begun to run
Started(l) == loop[l].state \notin {"none", "pending", "cancelled"}

\* C20: a loop whose next run time cannot be computed has ended once it has
\* run, and has made no call of execute_task; being ended, it takes no
\* further step, although its entry may remain in scheduled_tasks.
C20_NotComputableEnds ==
    \A l \in Loops :
        /\ Started(l)
        /\ get_next_run_time(loop[l].cron_expression, now) = None
        => /\ loop[l].state = "finished"
           /\ \A f \in fired : f.loop # l

\* such a loop has ended by itself, time has passed, it is still stored
C20_Witness ==
    \E l \in Loops :
        /\ Started(l) /\ ~loop[l].must_cancel
        /\ get_next_run_time(loop[l].cron_expression, now) = None
        /\ now > 0
        /\ loop[l].task_id \in DOMAIN scheduled_tasks
        /\ scheduled_tasks[loop[l].task_id] = l

\* --------------------------------------- scheduler beside other callers
\* C14: a loop that has not been unscheduled and whose next run time is
\* computable has not ended, whatever its firings returned or raised.
C14_FailedFiringKeepsLoop ==
    \A l \in Loops :
        loop[l].state = "finished" /\ ~loop[l].must_cancel
        => get_next_run_time(loop[l].cron_expression, now) = None

\* a run of task_id started through the module's task_executor is in flight
ManualInFlight(task_id) ==
    \E c \in Executes :
        call[c].task_id = task_id /\ call[c].pc = "awaiting" /\ ~done(c)

\* C16: a firing made while a run of the same task id started through
\* task_executor is in flight is rejected.
C16_FiringRejectedDuringManual ==
    [][\A f \in fired' \ fired :
          ManualInFlight(loop[f.loop].task_id) => f.call = 0]_vars

\* ------------------------------------------------ handles of other runs
\* every entry of running_tasks other than the handle h is left as it is
KeepsOthers(h) ==
    \A task_id \in DOMAIN running_tasks :
        running_tasks[task_id] # h
        => /\ task_id \in DOMAIN running_tasks'
           /\ running_tasks'[task_id] = running_tasks[task_id]

\* C28: the cleanup of an accepted execute_task call removes no handle but
\* its own: a handle installed for the same id by a later call, after this
\* call's body finished and before this call resumed, is kept.
C28_CleanupKeepsNewHandle ==
    [][\A c \in Executes :
          call[c].pc = "awaiting" /\ call'[c].pc = "done" => KeepsOthers(c)
      ]_vars

\* C29: stop_task, when it resumes after the run it cancelled has ended,
\* removes no handle but that of the cancelled run: a handle installed for the
\* same id in between is kept.
C29_StopKeepsNewHandle ==
    [][\A c \in Stops :
          call[c].pc = "awaiting" /\ call'[c].pc = "done"
          => KeepsOthers(call[c].handle)
      ]_vars

\* stop_task has returned after cancelling a run; a run of the same id that
\* was accepted before stop_task resumed is in flight and about to take its
\* first step
C29_Witness ==
    \E c \in Stops, d \in Accepted :
        /\ call[c].pc = "done" /\ call[c].handle # 0
        /\ done(call[c].handle)
        /\ d # call[c].handle
        /\ call[d].task_id = call[c].task_id
        /\ task[d].state = "pending"
        /\ Head1("exec", d)

\* C30: cancelling a loop (unschedule_task, or schedule_task for the same id)
\* while the execution it started is in flight requests the cancellation of
\* that execution too; and once a cancelled loop has ended, the execution it
\* last started has ended, cancelled if the request reached it, its handle is
\* not in the scheduler's executor and the loop is not in scheduled_tasks.
C30_CancelReachesFiring ==
    [][\A l \in Loops :
          /\ ( /\ ~loop[l].must_cancel /\ loop'[l].must_cancel
               /\ loop[l].state = "awaiting" /\ ~done(loop[l].run) )
             => task'[loop[l].run].must_cancel
          /\ ( /\ loop'[l].must_cancel
               /\ loop'[l].state \in {"finished", "cancelled"}
               /\ loop'[l].run # 0 )
             => LET r == loop'[l].run
                IN  /\ task'[r].state \in {"finished", "cancelled"}
                    /\ task'[r].must_cancel => task'[r].state = "cancelled"
                    /\ \A task_id \in DOMAIN executor_running_tasks' :
                           executor_running_tasks'[task_id] # r
                    /\ \A task_id \in DOMAIN scheduled_tasks' :
                           scheduled_tasks'[task_id] # l
      ]_vars

\* a loop was cancelled while its firing was in flight: the loop has ended,
\* the execution was aborted and the id has no running handle
C30_Witness ==
    \E l \in Loops :
        /\ loop[l].must_cancel /\ loop[l].state = "finished"
        /\ loop[l].run # 0
        /\ task[loop[l].run].state = "cancelled"
        /\ call[loop[l].run].ret = Raise(CancelledError)
        /\ loop[l].task_id \notin DOMAIN executor_running_tasks

\* ------------------------------------------------ isolation of task ids
\* the entry of a map for an id, 0 when it has none
Entry(d, task_id) == IF task_id \in DOMAIN d THEN d[task_id] ELSE 0

\* this step is a failure, rejection or cancellation of an execution, a
\* firing or a loop of task id A
Fails(A) ==
    \/ \E c \in Calls :
          /\ call'[c].task_id = A
          /\ call[c].pc # "done" /\ call'[c].pc = "done"
          /\ ~call'[c].ret.success
    \/ \E r \in Calls :
          /\ call[r].task_id = A
          /\ \/ ~task[r].must_cancel /\ task'[r].must_cancel
             \/ task[r].state # "cancelled" /\ task'[r].state = "cancelled"
    \/ \E f \in fired' \ fired : f.call = 0 /\ loop[f.loop].task_id = A
    \/ \E l \in Loops :
          /\ loop[l].task_id = A
          /\ \/ ~loop[l].must_cancel /\ loop'[l].must_cancel
             \/ ~loopDone(l) /\ loop'[l].state \in {"finished", "cancelled"}

\* this step leaves the loops and the handles of task id B as they are
Same(B) ==
    /\ \A l \in Loops : loop[l].task_id = B => loop'[l] = loop[l]
    /\ Entry(scheduled_tasks', B) = Entry(scheduled_tasks, B)
    /\ Entry(executor_running_tasks', B) = Entry(executor_running_tasks, B)
    /\ Entry(running_tasks', B) = Entry(running_tasks, B)
    /\ \A r \in Calls : call[r].task_id = B => task'[r] = task[r]

\* C21: a step in which an execution or a firing of task id A fails, is
\* rejected or is cancelled, or in which A's loop is cancelled or ends, leaves
\* the loop of every other id B, its scheduled handle, its running handle and
\* its execution as they were.
C21_FailureIsolation ==
    [][\A A, B \in TaskIds : (A # B /\ Fails(A)) => Same(B)]_vars

\* id 1's firing was cancelled and its loop has ended with it, while id 2's
\* loop is awaiting its own firing, still registered and still scheduled
C21_Witness ==
    \E l1, l2 \in Loops :
        /\ loop[l1].task_id = 1 /\ loop[l2].task_id = 2
        /\ loop[l1].state = "finished" /\ loop[l1].run # 0
        /\ call[loop[l1].run].ret = Raise(CancelledError)
        /\ loop[l2].state = "awaiting" /\ ~done(loop[l2].run)
        /\ Entry(executor_running_tasks, 2) = loop[l2].run
        /\ Entry(scheduled_tasks, 2) = l2

\* ------------------------------------------------------------ TaskValidator
\* the checks of validate_task_data, in the order name, trigger method, port,
\* cron; the check a message belongs to
CheckOf(msg) ==
    IF msg \in {"name_empty", "name_too_short", "name_too_long", "name_char"} THEN 1
    ELSE IF msg = "invalid_method" THEN 2
    ELSE IF msg \in {"port_not_int", "port_range", "port_reserved"} THEN 3
    ELSE IF msg \in {"cron_required", "cron_incorrect"} THEN 4
    ELSE 5

\* the checks the task data fails, each taken alone
FailedChecks(d) ==
    { k \in 1..4 :
        \/ k = 1 /\ ~validate_task_name(d.task_name).ok
        \/ k = 2 /\ d.trigger_method \notin {Manual, Scheduled, Event}
        \/ k = 3 /\ ~validate_port(d.port).ok
        \/ k = 4 /\ d.trigger_method = Scheduled
                 /\ \/ Falsy(d.cron_expression)
                    \/ ~validate_cron_expression(d.cron_expression) }

\* C22: validate_task_data returns the reason of the earliest failing check
\* in the order name, trigger method, port, cron: the name's or the port's
\* own message, and (True, "") when no check fails.
C22_FirstFailingCheck ==
    out.fn = "validate_task_data" =>
        /\ out.ret.ok <=> FailedChecks(arg) = {}
        /\ \A k \in FailedChecks(arg) : CheckOf(out.ret.msg) <= k
        /\ ~out.ret.ok => CheckOf(out.ret.msg) \in FailedChecks(arg)
        /\ CheckOf(out.ret.msg) = 1 =>
              out.ret = validate_task_name(arg.task_name)
        /\ CheckOf(out.ret.msg) = 3 => out.ret = validate_port(arg.port)

\* task data with a good name that fails the trigger method check, the port
\* check and no other: the trigger method is the reason returned
C22_Witness ==
    /\ out.fn = "validate_task_data"
    /\ FailedChecks(arg) = {2, 3}
    /\ out.ret.msg = "invalid_method"

\* C23: when the name, the trigger method and the port pass, a Scheduled task
\* is accepted exactly when its cron expression is given, non-empty and
\* valid, and a Manual or Event task is accepted whatever its cron expression.
C23_CronOnlyForScheduled ==
    ( /\ out.fn = "validate_task_data"
      /\ FailedChecks(arg) \cap {1, 2, 3} = {} )
    => /\ arg.trigger_method = Scheduled =>
            /\ out.ret.ok <=>
                  /\ arg.cron_expression \notin {NoCron, ""}
                  /\ validate_cron_expression(arg.cron_expression)
            /\ arg.cron_expression \in {NoCron, ""} =>
                  out.ret.msg = "cron_required"
       /\ arg.trigger_method \in {Manual, Event} => out.ret = Valid

\* a Manual or Event task with an unparseable cron expression was accepted
C23_Witness ==
    /\ out.fn = "validate_task_data"
    /\ arg.trigger_method \in {Manual, Event}
    /\ arg.cron_expression = "61 * * * *"
    /\ out.ret.ok

\* C25 as stated: a name is accepted exactly when it is non-empty, its length
\* is within [2,255] and it holds no forbidden character.
C25_ByLength ==
    out.fn = "validate_task_name" =>
        ( out.ret.ok <=>
            /\ arg.task_name # <<>>
            /\ Len(arg.task_name) >= 2
            /\ Len(arg.task_name) <= 255
            /\ \A char \in {"<", ">", "\"", "'", "&", "\\", "/", "|"} :
                   ~Contains(arg.task_name, char) )

\* C25: a name is accepted exactly when, with the whitespace around it
\* removed, it is non-empty, its length is within [2,255] and it holds no
\* forbidden character; a trimmed name of length 2 is accepted and one of
\* length 1 is rejected.
C25_ByTrimmedLength ==
    out.fn = "validate_task_name" =>
        LET name == strip_name(arg.task_name)
            clean == \A char \in {"<", ">", "\"", "'", "&", "\\", "/", "|"} :
                        ~Contains(name, char)
        IN  /\ out.ret.ok <=> /\ name # <<>>
                              /\ Len(name) >= 2
                              /\ Len(name) <= 255
                              /\ clean
            /\ Len(name) = 1 => ~out.ret.ok
            /\ (Len(name) = 2 /\ clean) => out.ret.ok

\* a name longer than 255 characters was accepted: 255 characters with
\* whitespace around them
C25_Witness ==
    /\ out.fn = "validate_task_name"
    /\ Len(arg.task_name) > 255
    /\ out.ret.ok

\* C26: validate_port accepts None, rejects every int outside [1,65535] and
\* every reserved port, and accepts every other int in [1,65535].
C26_Ports ==
    out.fn = "validate_port" =>
        /\ arg.port.type = "NoneType" => out.ret.ok
        /\ arg.port.type = "int" =>
              ( out.ret.ok <=>
                  /\ arg.port.value >= 1 /\ arg.port.value <= 65535
                  /\ arg.port.value \notin
                         {22, 23, 25, 53, 80, 110, 443, 993, 995} )

\* the largest port was accepted
C26_Witness ==
    /\ out.fn = "validate_port"
    /\ arg.port = IntPort(65535)
    /\ out.ret.ok

\* ------------------------------------------------------------ CronValidator
\* C24: get_next_run_time returns None whenever validate_cron_expression is
\* false; a time it returns is after base_time, satisfies the expression, and
\* no time between base_time and it does; and it returns a time whenever the
\* expression is valid and some later time satisfies it.
C24_EarliestAfterBase ==
    out.fn = "get_next_run_time" =>
        LET e == arg.cron_expression
            b == arg.base_time
            \* minute t satisfies the expression
            Matches(t) == \/ e = "* * * * *"
                          \/ e = "*/5 * * * *" /\ t % 5 = 0
        IN  /\ ~validate_cron_expression(e) => out.ret = None
            /\ out.ret # None =>
                  /\ out.ret > b
                  /\ Matches(out.ret)
                  /\ \A t \in (b + 1)..(out.ret - 1) : ~Matches(t)
            /\ ( /\ validate_cron_expression(e)
                 /\ \E t \in (b + 1)..(b + 5) : Matches(t) )
               => out.ret # None

\* the base time satisfies the expression itself, and the next match, five
\* minutes later, was returned
C24_Witness ==
    /\ out.fn = "get_next_run_time"
    /\ arg.cron_expression = "*/5 * * * *"
    /\ arg.base_time = 5
    /\ out.ret = 10

\* ------------------------------------------------ TaskStatisticsCalculator
RECURSIVE Total(_, _)
Total(f, S) ==
    IF S = {} THEN 0
    ELSE LET d == CHOOSE d \in S : TRUE IN f[d] + Total(f, S \ {d})

\* C27: get_execution_trend returns {stable, 0.0} for fewer than 2 dates;
\* otherwise the trend is increasing when the change rate between the
\* averages of the two halves of the at most 7 most recent dates exceeds 10,
\* decreasing when it is below -10 and stable otherwise; the change rate is
\* 100 when the first average is 0 and the second is positive, and 0 when
\* both are 0. The rate is taken in exact arithmetic: with S1 executions on
\* the n1 dates of the first half and S2 on the n2 dates of the second,
\* (S2/n2 - S1/n1) / (S1/n1) * 100 exceeds 10 exactly when
\* (S2*n1 - S1*n2) * 100 > 10 * S1*n2, for S1 > 0.
C27_TrendByChangeRate ==
    out.fn = "get_execution_trend" =>
        LET f == arg.executions_by_date
            n == Cardinality(DOMAIN f)
            window == IF n > 7 THEN (n - 6)..n ELSE 1..n
            first == { d \in window :
                         Cardinality({ o \in window : o <= d })
                             <= Cardinality(window) \div 2 }
            second == window \ first
            n1 == Cardinality(first)
            n2 == Cardinality(second)
            S1 == Total(f, first)
            S2 == Total(f, second)
            diff == (S2 * n1 - S1 * n2) * 100
        IN  IF n < 2 THEN out.ret = Trend("stable", 0)
            ELSE IF S1 = 0
                 THEN out.ret = IF S2 > 0 THEN Trend("increasing", 100 * 100)
                                ELSE Trend("stable", 0)
            ELSE out.ret.trend =
                     IF diff > 10 * S1 * n2 THEN "increasing"
                     ELSE IF diff < -10 * S1 * n2 THEN "decreasing"
                     ELSE "stable"
====
